---- MODULE Spec2Model ----
(***************************************************************************)
(* Model of the MRM Cybersecurity API (src/main.py, src/schemas.py).       *)
(*                                                                         *)
(* State: the storage handle `db` (None in disabled mode, otherwise the    *)
(* collections of the document store), the last request served, its        *)
(* response, and a log of what its handler did (storage operations made,   *)
(* create_document calls made, whether an exception was raised inside the  *)
(* handler).  A handler that makes at most one storage operation is one    *)
(* action.  seed() makes up to eight, and the server runs handlers in a     *)
(* thread pool: a step of POST /seed is one storage operation, so that      *)
(* other requests are served between two of them; pc is the position of     *)
(* each worker that serves a POST /seed.                                    *)
(* GET /test only reads the handle and is left out.                        *)
(*                                                                         *)
(* Text that the code inspects character by character (tool names, the q   *)
(* parameter) is a sequence of one-character strings; other text is a      *)
(* TLA+ string.  Python's None in a string-typed position is the value     *)
(* None below; an absent dictionary key or query parameter is an absent    *)
(* key of the record.                                                      *)
(***************************************************************************)
EXTENDS Integers, Sequences, FiniteSets, TLC

VARIABLES db, req, resp, log, pc

vars == <<db, req, resp, log, pc>>

\* ------------------------------------------------------------------ bounds

\* Largest number of tool documents the store holds before the first request.
MaxTools == 3

\* Largest number of documents POST /subscribe and POST /contact may each add.
MaxPosts == 1

\* Largest number of articles by which a provider answer exceeds the cut.
MaxExtra == 1

\* The e-mail addresses a request body may carry.
Emails == {"a@example.com", "b@example.com"}

\* The values of the process clock (datetime.now(timezone.utc).isoformat()).
Clock == {"2026-01-01T00:00:00+00:00", "2026-01-02T00:00:00+00:00"}

\* Number of POST /seed requests served, each by a worker of its own.
NumWorkers == 2

\* --------------------------------------------------------------- constants

\* (data.get("results") or [])[:12]
NewsLimit == 12

\* Python's None where a string is expected.
None == "<None>"

\* `db is None`: no storage connection.
NoDb == <<>>

\* The collections the handlers touch, named by the lowercased schema name.
Kinds == {"tool", "course", "lab", "subscriber", "contactmessage"}

\* ------------------------------------------------------------------ helpers

\* dict.get(key, default)
Get(x, key, default) == IF key \in DOMAIN x THEN x[key] ELSE default

\* Python's `a or b` on strings and None.
Or(a, b) == IF a = None \/ a = "" THEN b ELSE a

\* An empty dictionary.
EmptyDict == [k \in {} |-> None]

Reverse(s) == [i \in 1..Len(s) |-> s[Len(s) + 1 - i]]

\* str.lower() on the characters that occur in the model.
Lower(c) ==
  CASE c = "N" -> "n"
    [] c = "M" -> "m"
    [] c = "A" -> "a"
    [] c = "P" -> "p"
    [] c = "W" -> "w"
    [] c = "Z" -> "z"
    [] OTHER -> c

\* ObjectId of the store and its str().
ObjectId(n) == [oid |-> n]

Str(id) == ToString(id.oid)

\* ------------------------------------------------------------- schema layer

\* pydantic's HttpUrl: validating a text yields a URL object, not a string,
\* and an empty path is normalised to "/".
HttpUrl(scheme, host, path) ==
  [scheme |-> scheme, host |-> host, path |-> IF path = "" THEN "/" ELSE path]

\* str() of a URL object.
UrlStr(u) == u.scheme \o "://" \o u.host \o u.path

\* Tool(name="Nmap", ...).model_dump()
NmapDoc ==
  [name |-> <<"N", "m", "a", "p">>,
   description |-> "Network exploration tool and security / port scanner.",
   category |-> "Reconnaissance",
   tags |-> <<"network", "scanner">>,
   popularity |-> 95,
   difficulty |-> "Intermediate",
   link |-> HttpUrl("https", "nmap.org", "")]

\* Tool(name="Wireshark", ...).model_dump()
WiresharkDoc ==
  [name |-> <<"W", "i", "r", "e", "s", "h", "a", "r", "k">>,
   description |-> "Network protocol analyzer.",
   category |-> "Forensics",
   tags |-> <<"packet", "analyzer">>,
   popularity |-> 90,
   difficulty |-> "Beginner",
   link |-> HttpUrl("https", "www.wireshark.org", "")]

\* Course(title="Ethical Hacking Basics", ...).model_dump()
CourseBasicsDoc ==
  [title |-> "Ethical Hacking Basics",
   thumbnail |-> None,
   difficulty |-> "Beginner",
   slug |-> "ethical-hacking-basics",
   description |-> "Kickstart into ethical hacking."]

\* Course(title="Linux for Hackers", ...).model_dump()
CourseLinuxDoc ==
  [title |-> "Linux for Hackers",
   thumbnail |-> None,
   difficulty |-> "Beginner",
   slug |-> "linux-for-hackers",
   description |-> None]

\* Lab(title="Intro Recon Lab", ...).model_dump()
LabDoc ==
  [title |-> "Intro Recon Lab",
   category |-> "Beginner",
   estimated_minutes |-> 20,
   link |-> None,
   score |-> 0]

\* Subscriber(email=..., source="website")
Subscriber(email) == [email |-> email, source |-> "website"]

\* ContactMessage(name=..., email=..., message=...)
ContactMessage(name, email, message) ==
  [name |-> name, email |-> email, message |-> message]

\* ------------------------------------------- documents already in the store
\* The store is schemaless and outlives the process: the tool collection may
\* hold documents written by other means, with fields missing or outside the
\* schema's enumerations.

OldToolDoc ==
  [name |-> <<"Z", "M", "a", "p">>, category |-> "Reconnaissance",
   popularity |-> 90, difficulty |-> "Advanced"]

ToolPool ==
  { OldToolDoc,
    [name |-> <<"n", "m", "a", "p">>, category |-> "Recon",
     difficulty |-> "Expert"],
    [name |-> <<"Z", "A", "P">>, category |-> "reconnaissance",
     popularity |-> 90] }

OldCourseDoc ==
  [title |-> "Web Basics", thumbnail |-> None, difficulty |-> "Advanced",
   slug |-> "web-basics", description |-> None]

OldLabDoc ==
  [title |-> "Old Lab", category |-> "Advanced", estimated_minutes |-> 60,
   link |-> None, score |-> 0]

\* Sequences of distinct elements of S, of length at most n.
DistinctSeqs(S, n) ==
  UNION { { s \in [1..k -> S] : \A i, j \in 1..k : s[i] = s[j] => i = j }
          : k \in 0..n }

\* The documents of a collection carry the identifiers the store gave them,
\* unique within the collection.
WithIds(docs) ==
  [i \in 1..Len(docs) |-> docs[i] @@ ("_id" :> ObjectId(i))]

\* ---------------------------------------------------------- storage accessor

\* create_document(kind, record): one insert into the named collection; the
\* store gives the document an identifier new to the collection.
CreateDocument(d, kind, record) ==
  [d EXCEPT ![kind] = Append(@, record @@ ("_id" :> ObjectId(Len(@) + 1)))]

\* db[kind].count_documents({})
CountDocuments(d, kind) == Len(d[kind])

\* $regex with $options "i", for patterns of literal characters and ".":
\* the pattern matches at offset i of the text.
RegexMatchAt(pattern, text, i) ==
  /\ i + Len(pattern) - 1 <= Len(text)
  /\ \A j \in 1..Len(pattern) :
       \/ pattern[j] = "."
       \/ Lower(pattern[j]) = Lower(text[i + j - 1])

RegexSearch(pattern, text) ==
  \E i \in 1..(Len(text) + 1) : RegexMatchAt(pattern, text, i)

\* Whether a document matches a find() filter over name and category.
Matches(doc, filter) ==
  /\ "name" \in DOMAIN filter =>
       /\ "name" \in DOMAIN doc
       /\ RegexSearch(filter["name"].regex, doc["name"])
  /\ "category" \in DOMAIN filter =>
       /\ "category" \in DOMAIN doc
       /\ doc["category"] = filter["category"]

\* db[kind].find(filter): the matching documents in storage order.
Find(d, kind, filter) ==
  LET Keep(doc) == Matches(doc, filter) IN SelectSeq(d[kind], Keep)

\* ------------------------------------------------- query/filter/sort engine

\* list.sort(): a stable ascending sort of s by the keys ks (ks[i] is the
\* key of s[i]).
StableSort(s, ks) ==
  LET n == Len(s)
      pos(i) == 1 + Cardinality({ j \in 1..n :
                       \/ ks[j] < ks[i]
                       \/ ks[j] = ks[i] /\ j < i })
  IN [p \in 1..n |-> s[CHOOSE i \in 1..n : pos(i) = p]]

\* A plausible slip: sort ascending, then reverse the result.
ListSortReversedAfter(s, ks, reverse) ==
  IF reverse THEN Reverse(StableSort(s, ks)) ELSE StableSort(s, ks)

\* list.sort(key=..., reverse=...): with reverse the list is reversed,
\* sorted stably and reversed again, so equal keys keep their order.
ListSort(s, ks, reverse) ==
  IF reverse
    THEN Reverse(StableSort(Reverse(s), Reverse(ks)))
    ELSE StableSort(s, ks)

\* A plausible slip: an unrecognized difficulty is ranked last.
DiffOrderUnknownLast(difficulty) ==
  CASE difficulty = "Beginner" -> 0
    [] difficulty = "Intermediate" -> 1
    [] difficulty = "Advanced" -> 2
    [] OTHER -> 3

\* diff_order.get(x.get("difficulty", "Beginner"), 0)
DiffOrder(difficulty) ==
  CASE difficulty = "Beginner" -> 0
    [] difficulty = "Intermediate" -> 1
    [] difficulty = "Advanced" -> 2
    [] OTHER -> 0

\* Python's order on the category strings that occur in the model
\* (code point order: "" first, upper case before lower case).
LexRank(c) ==
  CASE c = "" -> 0
    [] c = "Forensics" -> 1
    [] c = "Recon" -> 2
    [] c = "Reconnaissance" -> 3
    [] c = "reconnaissance" -> 4
    [] OTHER -> 5

\* Truthiness of the q parameter (text): given and not empty.
TruthyText(params, k) == k \in DOMAIN params /\ Len(params[k]) > 0

\* Truthiness of a string parameter: given and not empty.
TruthyStr(params, k) == k \in DOMAIN params /\ params[k] # ""

\* filter_dict as list_tools builds it.
FilterDict(params) ==
  (IF TruthyText(params, "q")
     THEN "name" :> [regex |-> params["q"], options |-> "i"]
     ELSE EmptyDict)
  @@
  (IF TruthyStr(params, "category")
     THEN "category" :> params["category"]
     ELSE EmptyDict)

\* t["_id"] = str(t["_id"]) on the documents find() returned.
StrIds(docs) ==
  [i \in 1..Len(docs) |-> [docs[i] EXCEPT !["_id"] = Str(@)]]

\* The sort phase of list_tools.
SortTools(tools, sort) ==
  CASE sort = "popularity" ->
         ListSort(tools,
                  [i \in 1..Len(tools) |-> Get(tools[i], "popularity", 0)],
                  TRUE)
    [] sort = "difficulty" ->
         ListSort(tools,
                  [i \in 1..Len(tools) |->
                     DiffOrder(Get(tools[i], "difficulty", "Beginner"))],
                  FALSE)
    [] sort = "category" ->
         ListSort(tools,
                  [i \in 1..Len(tools) |->
                     LexRank(Get(tools[i], "category", ""))],
                  FALSE)
    [] OTHER -> tools

\* The fields the schemas declare as Optional[HttpUrl].
UrlFields == {"link", "thumbnail"}

\* Whether a value of such a field is None.
IsNone(v) == ToString(v) = ToString(None)

\* The JSON encoding of a returned document: a URL object is rendered as its
\* text, every other value of the model as it is.
JsonDoc(doc) ==
  [k \in DOMAIN doc |->
     IF k \in UrlFields /\ ~IsNone(doc[k]) THEN UrlStr(doc[k]) ELSE doc[k]]

\* The JSON encoding of a returned list of documents.
Jsonable(docs) == [i \in 1..Len(docs) |-> JsonDoc(docs[i])]

\* The server's answer to an exception that no handler catches.
Unhandled == [code |-> 500, body |-> "Internal Server Error"]

\* What a reading handler did: nothing in disabled mode, otherwise one find(),
\* which may raise.
readRun(d, raises) ==
  [ops |-> IF d = NoDb THEN 0 ELSE 1, creates |-> 0,
   raised |-> d # NoDb /\ raises]

\* The answer of a reading handler: the returned list JSON-encoded, or the
\* exception of find(), which the handler does not catch.
readResponse(st, docs) ==
  IF st.raised THEN Unhandled ELSE [code |-> 200, body |-> Jsonable(docs)]

\* GET /tools: the list the handler returns.
list_tools(d, params) ==
  IF d = NoDb
    THEN <<>>
    ELSE SortTools(StrIds(Find(d, "tool", FilterDict(params))),
                   Get(params, "sort", None))

\* GET /courses: the list the handler returns.
list_courses(d) ==
  IF d = NoDb THEN <<>> ELSE StrIds(Find(d, "course", EmptyDict))

\* ---------------------------------------------------------------- POST /seed
\* seed() is followed one storage operation at a time.  The record of a call
\* in progress holds the statement it is about to execute (at), the number of
\* storage operations and of create_document calls it has made, and, for the
\* statements about it, what it found and did: the kinds that held a document
\* when the request arrived (held), the number of documents it has inserted
\* into each kind (made), and whether the request arrived directly after a
\* POST /seed that answered ok (after).

\* The kinds seed() fills, in the order of the code.
SeedOrder == <<"tool", "course", "lab">>

\* The kinds POST /seed fills.
SeededKinds == {"tool", "course", "lab"}

\* The sample documents of each seeded kind, in insertion order.
SeedDocs(kind) ==
  CASE kind = "tool" -> <<NmapDoc, WiresharkDoc>>
    [] kind = "course" -> <<CourseBasicsDoc, CourseLinuxDoc>>
    [] kind = "lab" -> <<LabDoc>>

\* The largest number of storage operations one seed() makes: a count for
\* each kind and an insert for each sample.
SeedOps ==
  Len(SeedOrder) + Len(SeedDocs("tool")) + Len(SeedDocs("course"))
                 + Len(SeedDocs("lab"))

\* The call as the request arrives, before its first statement.
SeedEnter(d, after) ==
  [at |-> <<"count", 1>>, ops |-> 0, creates |-> 0,
   held |-> IF d = NoDb THEN {} ELSE { k \in SeededKinds : Len(d[k]) > 0 },
   made |-> [k \in SeededKinds |-> 0],
   after |-> after]

\* The statement after the block of kind number k.
AfterKind(k) == IF k < Len(SeedOrder) THEN <<"count", k + 1>> ELSE <<"return">>

\* A plausible slip: the guard of every block reads the tool collection.
CountedToolOnly(d, k) == CountDocuments(d, "tool")

\* db[kind].count_documents({}) in the guard of block k.
Counted(d, k) == CountDocuments(d, SeedOrder[k])

\* A plausible slip: the "only if empty" guard is missing.
AfterCountUnguarded(k, n) == <<"create", k, 1>>

\* `if db[kind].count_documents({}) == 0:` the statement after the guard of
\* block k has counted n documents.
AfterCount(k, n) == IF n = 0 THEN <<"create", k, 1>> ELSE AfterKind(k)

\* The guard of block k: one count, which may raise.
SeedCount(st, d, k, raises) ==
  [st |-> [st EXCEPT !.ops = @ + 1,
                     !.at = IF raises THEN <<"except">>
                                      ELSE AfterCount(k, Counted(d, k))],
   db |-> d]

\* The i-th create_document call of block k, which may raise.
SeedCreate(st, d, k, i, raises) ==
  LET kind == SeedOrder[k]
  IN IF raises
       THEN [st |-> [st EXCEPT !.ops = @ + 1, !.creates = @ + 1,
                               !.at = <<"except">>],
             db |-> d]
       ELSE [st |-> [st EXCEPT !.ops = @ + 1, !.creates = @ + 1,
                               !.made[kind] = @ + 1,
                               !.at = IF i < Len(SeedDocs(kind))
                                        THEN <<"create", k, i + 1>>
                                        ELSE AfterKind(k)],
             db |-> CreateDocument(d, kind, SeedDocs(kind)[i])]

\* The next statement of a call in progress, from the store d: `if db is
\* None: raise` before the first one, then one storage operation.
SeedOp(st, d, raises) ==
  IF d = NoDb THEN [st |-> [st EXCEPT !.at = <<"except">>], db |-> d]
  ELSE IF st.at[1] = "count" THEN SeedCount(st, d, st.at[2], raises)
  ELSE SeedCreate(st, d, st.at[2], st.at[3], raises)

\* A plausible slip: the handler answers ok whatever happened.
seedResponseAlwaysOk(st) == [code |-> 200, body |-> [status |-> "ok"]]

\* seed()'s answer: ok, or the HTTPException(500) of the except clause.
seedResponse(st) ==
  IF st.at = <<"except">>
    THEN [code |-> 500]
    ELSE [code |-> 200, body |-> [status |-> "ok"]]

\* What a finished call did.
SeedLog(st) ==
  [ops |-> st.ops, creates |-> st.creates, raised |-> st.at = <<"except">>,
   held |-> st.held, made |-> st.made, after |-> st.after]

\* A handler that makes no storage operation and raises nothing.
Quiet == [ops |-> 0, creates |-> 0, raised |-> FALSE]

\* ------------------------------------------- POST /subscribe, POST /contact

\* A plausible slip: the `db is None` check is missing.
postRunNoDbCheck(d, kind, record, raises) ==
  IF d = NoDb \/ raises
    THEN [db |-> d, ops |-> 1, creates |-> 1, raised |-> TRUE]
    ELSE [db |-> CreateDocument(d, kind, record),
          ops |-> 1, creates |-> 1, raised |-> FALSE]

\* The body shared by subscribe() and contact(): nothing in disabled mode,
\* otherwise one create_document call, which may raise and then stores
\* nothing.
postRun(d, kind, record, raises) ==
  IF d = NoDb
    THEN [db |-> d, ops |-> 0, creates |-> 0, raised |-> FALSE]
  ELSE IF raises
    THEN [db |-> d, ops |-> 1, creates |-> 1, raised |-> TRUE]
    ELSE [db |-> CreateDocument(d, kind, record),
          ops |-> 1, creates |-> 1, raised |-> FALSE]

\* The answer of subscribe() and contact(): disabled, ok, or the exception of
\* create_document, which the handler does not catch.
postResponse(st) ==
  IF st.raised
    THEN Unhandled
    ELSE [code |-> 200,
          body |-> [status |-> IF st.db = NoDb THEN "disabled" ELSE "ok"]]

\* ------------------------------------------------------------------ GET /news

\* NewsItem(title=..., url=..., source="Sample", published_at=now)
SampleItem(title, url, now) ==
  [title |-> title, description |-> None, url |-> url, image_url |-> None,
   source |-> "Sample", published_at |-> now]

\* The fallback sample list.
FallbackItems(now) ==
  << SampleItem("Latest CVE trends show rise in supply-chain attacks",
                "https://thehackernews.com/", now),
     SampleItem("Krebs: Major ISP suffers DDoS impacting services",
                "https://krebsonsecurity.com/", now),
     SampleItem("ThreatPost: Critical bug patched in popular router firmware",
                "https://threatpost.com/", now) >>

\* An element of the provider's results on which a.get(...) raises: a JSON
\* value that is not an object.
Malformed == [malformed |-> TRUE]

\* The NewsItem built from one provider article.
MapArticle(a) ==
  [title |-> Or(Get(a, "title", None), "Untitled"),
   description |-> Get(a, "description", None),
   url |-> Or(Get(a, "link", None), Or(Get(a, "url", None), "")),
   image_url |-> Or(Get(a, "image_url", None),
                    Or(Get(a, "image_url", None), None)),
   source |-> Get(a, "source_id", None),
   published_at |-> Or(Get(a, "pubDate", None), Get(a, "pubDate", None))]

\* os.getenv("NEWSDATA_API_KEY") or os.getenv("NEWSAPI_KEY")
ApiKey(env) == Or(env.NEWSDATA_API_KEY, env.NEWSAPI_KEY)

\* Truthiness of a string or None.
TruthyValue(v) == v # None /\ v # ""

\* The items appended inside the try block: the first 12 results mapped in
\* order, up to the first one on which the mapping raises.
MappedItems(results) ==
  LET cut == SubSeq(results, 1, IF Len(results) < NewsLimit
                                  THEN Len(results) ELSE NewsLimit)
      bad == { i \in 1..Len(cut) : cut[i] = Malformed }
      n   == IF bad = {}
               THEN Len(cut)
               ELSE (CHOOSE i \in bad : \A j \in bad : i <= j) - 1
  IN [i \in 1..n |-> MapArticle(cut[i])]

\* Whether the try block of get_news raised: the call or r.json() did, or an
\* element among the first 12 results is malformed.
NewsRaised(outcome) ==
  \/ outcome.raises
  \/ LET results == Get(outcome.data, "results", <<>>)
     IN \E i \in 1..Len(results) : i <= NewsLimit /\ results[i] = Malformed

\* `items` after the `if api_key:` block.
newsItems(env, outcome) ==
  IF ~TruthyValue(ApiKey(env)) \/ outcome.raises
    THEN <<>>
    ELSE MappedItems(Get(outcome.data, "results", <<>>))

\* A plausible slip: the fallback is used only when no key is configured.
getNewsNoFallback(env, outcome, now) ==
  IF ~TruthyValue(ApiKey(env))
    THEN FallbackItems(now)
    ELSE newsItems(env, outcome)

\* GET /news: the response body.
get_news(env, outcome, now) ==
  LET items == newsItems(env, outcome)
  IN IF Len(items) = 0 THEN FallbackItems(now) ELSE items

\* ---------------------------------------------------------- GET /, /incidents

\* root()
root == [name |-> "MRM Cybersecurity API", status |-> "ok"]

\* incidents(): three sample incidents stamped with the request time.
incidents(now) ==
  << [country |-> "US", type |-> "DDoS", severity |-> "High", time |-> now,
      description |-> "Large-scale DDoS on hosting provider.",
      mitre_attack_vector |-> "T1498"],
     [country |-> "DE", type |-> "Malware", severity |-> "Medium", time |-> now,
      description |-> "Emotet activity resurgence.",
      mitre_attack_vector |-> "T1204"],
     [country |-> "IN", type |-> "Phishing", severity |-> "Low", time |-> now,
      description |-> "Targeted phishing campaign detected.",
      mitre_attack_vector |-> "T1566"] >>

\* ------------------------------------------------------------------- inputs

\* A query parameter that may be absent: no key, or the key with a value.
Optional(k, values) == {EmptyDict} \cup { k :> v : v \in values }

\* The query strings of GET /tools.
ToolParams ==
  { q @@ c @@ o :
      q \in Optional("q", {<<>>, <<"M", "A", "P">>, <<"m", ".", "p">>}),
      c \in Optional("category", {"", "Reconnaissance", "Recon"}),
      o \in Optional("sort", {"popularity", "difficulty", "category", "name"}) }

\* The environment of the process, as get_news reads it.
Envs ==
  { [NEWSDATA_API_KEY |-> None, NEWSAPI_KEY |-> None],
    [NEWSDATA_API_KEY |-> "",   NEWSAPI_KEY |-> None],
    [NEWSDATA_API_KEY |-> "",   NEWSAPI_KEY |-> "k2"],
    [NEWSDATA_API_KEY |-> "k1", NEWSAPI_KEY |-> "k2"] }

\* A provider article: with every field, or with a blank title and the link
\* under the alternate key only.
Article(shape, i) ==
  IF shape = "full"
    THEN [title |-> ToString(i), description |-> "text",
          link |-> "https://news.example/a", image_url |-> "https://news.example/i",
          source_id |-> "provider", pubDate |-> "2026-01-01 00:00:00"]
    ELSE [title |-> "", url |-> "https://news.example/b"]

\* A provider answer of n articles, the one at index bad (if any) malformed.
Results(n, shape, bad) ==
  [i \in 1..n |-> IF i = bad THEN Malformed ELSE Article(shape, i)]

\* What the outbound call may do: raise, answer without results, or answer
\* with a list of results.
ProviderOutcomes ==
  { [raises |-> TRUE], [raises |-> FALSE, data |-> EmptyDict] }
  \cup
  { [raises |-> FALSE, data |-> [results |-> Results(n, shape, bad)]] :
      n \in {0, 1, 2} \cup (NewsLimit..(NewsLimit + MaxExtra)),
      shape \in {"full", "sparse"},
      bad \in {0, 1, 2} }

\* ------------------------------------------------------------ initial states

\* The stores the process may find: any few tool documents, a course or a lab
\* or neither, and nothing posted yet.
InitialStores ==
  { [tool |-> WithIds(ts), course |-> WithIds(cs), lab |-> WithIds(ls),
     subscriber |-> <<>>, contactmessage |-> <<>>] :
      ts \in DistinctSeqs(ToolPool, MaxTools),
      cs \in {<<>>, <<OldCourseDoc>>},
      ls \in {<<>>, <<OldLabDoc>>} }

\* The stores GET /tools is checked on: any few tool documents, the samples
\* of an earlier POST /seed among them.
QueryStores ==
  { [tool |-> WithIds(ts), course |-> <<>>, lab |-> <<>>,
     subscriber |-> <<>>, contactmessage |-> <<>>] :
      ts \in DistinctSeqs(ToolPool \cup {NmapDoc, WiresharkDoc}, MaxTools) }

\* The stores POST /seed is checked on: each seeded kind empty or holding a
\* document written earlier.
SeedStores ==
  { [tool |-> WithIds(ts), course |-> WithIds(cs), lab |-> WithIds(ls),
     subscriber |-> <<>>, contactmessage |-> <<>>] :
      ts \in {<<>>, <<OldToolDoc>>},
      cs \in {<<>>, <<OldCourseDoc>>},
      ls \in {<<>>, <<OldLabDoc>>} }

\* The stores the write path is checked on: a tool and a lab written earlier,
\* a course or none, and nothing posted yet.
StorageStores ==
  { [tool |-> WithIds(<<OldToolDoc>>), course |-> WithIds(cs),
     lab |-> WithIds(<<OldLabDoc>>),
     subscriber |-> <<>>, contactmessage |-> <<>>] :
      cs \in {<<>>, <<OldCourseDoc>>} }

\* The workers that serve a POST /seed, numbered in the order in which their
\* requests arrive.
Workers == 1..NumWorkers

\* A worker whose request has not arrived yet.
Idle == [at |-> <<"idle">>]

Init ==
  /\ db \in {NoDb} \cup InitialStores
  /\ req = [op |-> "start"]
  /\ resp = [code |-> 0]
  /\ log = Quiet
  /\ pc = [w \in Workers |-> Idle]

\* ------------------------------------------------- actions: one per request

\* GET /
Root ==
  /\ req' = [op |-> "root"]
  /\ resp' = [code |-> 200, body |-> root]
  /\ log' = Quiet
  /\ UNCHANGED <<db, pc>>

\* POST /seed at worker w: the next storage operation of the call, which may
\* raise, with the statements around it.  The first step is the arrival of
\* the request, and the step that reaches `return` or the except clause
\* answers it.
SeedStep(w) ==
  \E raises \in BOOLEAN :
    LET st0 == IF pc[w] = Idle
                 THEN SeedEnter(db, req.op = "seed" /\ resp.code = 200)
                 ELSE pc[w]
        r   == SeedOp(st0, db, raises)
        fin == r.st.at[1] \in {"return", "except"}
    IN /\ pc[w].at[1] # "done"
       /\ \A v \in Workers : v < w => pc[v] # Idle
       /\ db' = r.db
       /\ pc' = [pc EXCEPT ![w] =
                   IF fin THEN [at |-> <<"done", seedResponse(r.st).code>>]
                          ELSE r.st]
       /\ req' = IF fin THEN [op |-> "seed"] ELSE req
       /\ resp' = IF fin THEN seedResponse(r.st) ELSE resp
       /\ log' = IF fin THEN SeedLog(r.st) ELSE log

\* POST /seed at any worker.
Seed == \E w \in Workers : SeedStep(w)

\* GET /tools; the read may raise.
ListTools ==
  \E params \in ToolParams, raises \in BOOLEAN :
    LET st == readRun(db, raises)
    IN /\ req' = [op |-> "list_tools", params |-> params]
       /\ resp' = readResponse(st, IF st.raised THEN <<>>
                                               ELSE list_tools(db, params))
       /\ log' = st
       /\ UNCHANGED <<db, pc>>

\* GET /courses; the read may raise.
ListCourses ==
  \E raises \in BOOLEAN :
    LET st == readRun(db, raises)
    IN /\ req' = [op |-> "list_courses"]
       /\ resp' = readResponse(st, IF st.raised THEN <<>> ELSE list_courses(db))
       /\ log' = st
       /\ UNCHANGED <<db, pc>>

\* GET /news with a key configured: the outbound call is made.
GetNewsWithKey ==
  \E env \in Envs, outcome \in ProviderOutcomes, now \in Clock :
    /\ TruthyValue(ApiKey(env))
    /\ LET body == get_news(env, outcome, now)
           fell == Len(newsItems(env, outcome)) = 0
       IN /\ req' = IF fell
                      THEN [op |-> "get_news", env |-> env, outcome |-> outcome,
                            now |-> now]
                      ELSE [op |-> "get_news", env |-> env, outcome |-> outcome]
          /\ resp' = [code |-> 200, body |-> body]
    /\ log' = [Quiet EXCEPT !.raised = NewsRaised(outcome)]
    /\ UNCHANGED <<db, pc>>

\* GET /news with no key configured: no outbound call.
GetNewsNoKey ==
  \E env \in Envs, now \in Clock :
    /\ ~TruthyValue(ApiKey(env))
    /\ req' = [op |-> "get_news", env |-> env, now |-> now]
    /\ resp' = [code |-> 200, body |-> get_news(env, [raises |-> FALSE, data |-> EmptyDict], now)]
    /\ log' = Quiet
    /\ UNCHANGED <<db, pc>>

\* GET /incidents
Incidents ==
  \E now \in Clock :
    /\ req' = [op |-> "incidents", now |-> now]
    /\ resp' = [code |-> 200, body |-> incidents(now)]
    /\ log' = Quiet
    /\ UNCHANGED <<db, pc>>

\* POST /subscribe with a valid Subscriber body; the insert may raise.
Subscribe ==
  \E email \in Emails, raises \in BOOLEAN :
    LET sub == Subscriber(email)
        st  == postRun(db, "subscriber", sub, raises)
    IN /\ IF db = NoDb THEN TRUE ELSE Len(db["subscriber"]) < MaxPosts
       /\ req' = [op |-> "subscribe", body |-> sub]
       /\ resp' = postResponse(st)
       /\ log' = [ops |-> st.ops, creates |-> st.creates, raised |-> st.raised]
       /\ db' = st.db
       /\ UNCHANGED pc

\* POST /contact with a valid ContactMessage body; the insert may raise.
Contact ==
  \E email \in Emails, raises \in BOOLEAN :
    LET msg == ContactMessage("Ann", email, "hello")
        st  == postRun(db, "contactmessage", msg, raises)
    IN /\ IF db = NoDb THEN TRUE ELSE Len(db["contactmessage"]) < MaxPosts
       /\ req' = [op |-> "contact", body |-> msg]
       /\ resp' = postResponse(st)
       /\ log' = [ops |-> st.ops, creates |-> st.creates, raised |-> st.raised]
       /\ db' = st.db
       /\ UNCHANGED pc

\* Every route of the API.
Next ==
  \/ Root
  \/ Seed
  \/ ListTools
  \/ ListCourses
  \/ GetNewsWithKey
  \/ GetNewsNoKey
  \/ Incidents
  \/ Subscribe
  \/ Contact

\* POST /seed alone.
NextSeed == Seed

\* The routes that write to the store, and the read of a seeded collection.
NextStorage ==
  \/ Seed
  \/ Subscribe
  \/ Contact
  \/ ListCourses

\* The tool query engine.
NextQuery == ListTools

\* The routes that never touch the store.
NextNews ==
  \/ GetNewsWithKey
  \/ GetNewsNoKey
  \/ Incidents
  \/ Root

\* Disabled mode: the process started without a storage connection, and the
\* handle is never assigned again.
InitDisabled == Init /\ db = NoDb

\* The process starts on one of the stores of the write path, or without one.
InitStorage ==
  /\ db \in {NoDb} \cup StorageStores
  /\ req = [op |-> "start"]
  /\ resp = [code |-> 0]
  /\ log = Quiet
  /\ pc = [w \in Workers |-> Idle]

\* The write path: the steps of POST /seed interleaved with each other and
\* with the other routes.
SpecStorage == InitStorage /\ [][NextStorage]_vars

\* The process starts on a store that holds tools, or without one.
InitQuery ==
  /\ db \in {NoDb} \cup QueryStores
  /\ req = [op |-> "start"]
  /\ resp = [code |-> 0]
  /\ log = Quiet
  /\ pc = [w \in Workers |-> Idle]

\* GET /tools with every query string, on every such store.
SpecQuery == InitQuery /\ [][NextQuery]_vars

\* GET /news under every environment and provider outcome.
SpecNews == Init /\ [][NextNews]_vars

\* Every route, in disabled mode.
SpecDisabled == InitDisabled /\ [][Next]_vars

\* ---------------------------------------------------- POST /seed requests alone

\* The process starts on one of the stores of POST /seed, or without one.
InitSeed ==
  /\ db \in {NoDb} \cup SeedStores
  /\ req = [op |-> "start"]
  /\ resp = [code |-> 0]
  /\ log = Quiet
  /\ pc = [w \in Workers |-> Idle]

\* POST /seed requests, their storage operations interleaved, from every such
\* store.
SpecSeed == InitSeed /\ [][NextSeed]_vars

\* The process starts with an empty store, or without one.
InitConc ==
  /\ db \in {NoDb, [k \in Kinds |-> <<>>]}
  /\ req = [op |-> "start"]
  /\ resp = [code |-> 0]
  /\ log = Quiet
  /\ pc = [w \in Workers |-> Idle]

\* POST /seed requests, their storage operations interleaved, from the empty
\* store.
SpecConc == InitConc /\ [][NextSeed]_vars

\* ------------------------------------------------------- vocabulary of claims

\* A stored document without the identifier the store gave it.
Strip(doc) == [k \in (DOMAIN doc) \ {"_id"} |-> doc[k]]

Stripped(docs) == [i \in 1..Len(docs) |-> Strip(docs[i])]

IsPrefix(s, t) == Len(s) <= Len(t) /\ \A i \in 1..Len(s) : s[i] = t[i]

\* How many documents of a collection equal doc up to the identifier.
Occurrences(docs, doc) == Cardinality({ i \in 1..Len(docs) : Strip(docs[i]) = doc })

\* Every collection that POST /seed fills holds exactly its sample documents.
HoldsExactlyTheSamples(d) ==
  \A k \in SeededKinds : Stripped(d[k]) = SeedDocs(k)

\* The step is one of worker w's POST /seed.
Stepped(w) == pc'[w] # pc[w]

\* The step answers worker w's POST /seed.
Answered(w) == pc[w].at[1] # "done" /\ pc'[w].at[1] = "done"

\* Worker w's request arrived directly after a POST /seed that answered ok:
\* read before a step of the worker.
ArrivedAfterOkSeed(w) ==
  IF pc[w] = Idle THEN req.op = "seed" /\ resp.code = 200 ELSE pc[w].after

\* The kinds that held a document when worker w's request arrived: read
\* before a step of the worker.
HeldOnArrival(w) ==
  IF pc[w] = Idle THEN { k \in SeededKinds : Len(db[k]) > 0 } ELSE pc[w].held

\* ---------------------------------------------------------------------- C1
\* C1: with storage available, a POST /seed that arrives directly after a
\* POST /seed which answered ok leaves every collection as it is at each of
\* its storage operations, so that with no other write in between the
\* collections after it are those after the first call; it calls
\* create_document not at all, and it answers {status: ok} unless a storage
\* operation raised during it.
C1_SecondSeedInsertsNothing ==
  [][ \A w \in Workers :
        (Stepped(w) /\ db # NoDb /\ ArrivedAfterOkSeed(w)) =>
          /\ db' = db
          /\ Answered(w) =>
               /\ log'.creates = 0
               /\ \A k \in SeededKinds : log'.made[k] = 0
               /\ ~log'.raised => resp' = [code |-> 200, body |-> [status |-> "ok"]]
    ]_vars

\* C1 witness: a POST /seed that arrived after one answered ok was itself
\* answered ok without a single insert, and the collections hold exactly the
\* samples the first one inserted.
C1_Witness ==
  /\ req.op = "seed"
  /\ resp = [code |-> 200, body |-> [status |-> "ok"]]
  /\ log.after
  /\ log.creates = 0
  /\ HoldsExactlyTheSamples(db)

\* ---------------------------------------------------------------------- C2
\* The answer of POST /subscribe and the store after it.
C2_SubscribeAnswer ==
  req.op = "subscribe" =>
    /\ resp.code = 200
    /\ IF db = NoDb
         THEN resp.body.status = "disabled" /\ log.creates = 0
         ELSE /\ resp.body.status = "ok"
              /\ \E i \in 1..Len(db["subscriber"]) :
                   db["subscriber"][i].email = req.body.email

\* Once stored, a subscriber record stays where it is, whatever is served next.
C2_RecordsStay ==
  (db = NoDb /\ db' = NoDb) \/
  (db # NoDb /\ db' # NoDb /\ IsPrefix(db["subscriber"], db'["subscriber"]))

\* C2: POST /subscribe answers {status: disabled} and changes nothing in
\* disabled mode; with storage it answers {status: ok} and the subscriber
\* collection then holds a record with the posted e-mail, which no later
\* request removes or alters.
C2_SubscribeStoresForGood == []C2_SubscribeAnswer /\ [][C2_RecordsStay]_vars

\* C2 witness: a POST /seed has inserted both courses while a subscription is
\* stored, and the record is still there.
C2_Witness ==
  /\ req.op = "seed"
  /\ resp.code = 200
  /\ log.made["course"] = 2
  /\ Len(db["subscriber"]) >= 1
  /\ db["subscriber"][1].email \in Emails

\* ---------------------------------------------------------------------- C3
\* C3: POST /seed in disabled mode answers 500, never ok, without a storage
\* operation or a create_document call; and whenever anything is raised while
\* seeding the answer is a 500, ok being answered only when nothing was.
C3_SeedFailsWith500 ==
  req.op = "seed" =>
    /\ resp.code \in {200, 500}
    /\ db = NoDb => resp = [code |-> 500] /\ log.ops = 0 /\ log.creates = 0
    /\ log.raised => resp = [code |-> 500]
    /\ resp.code = 200 => db # NoDb /\ ~log.raised /\ resp.body.status = "ok"

\* C3 witness: POST /seed answered 500 in disabled mode.
C3_Witness == req.op = "seed" /\ db = NoDb /\ resp.code = 500

\* C3 second witness state, used to see that the fault case is reached too:
\* a storage operation raised after an insert had been made.
C3_FaultReached == req.op = "seed" /\ db # NoDb /\ log.raised /\ log.creates >= 2

\* ---------------------------------------------------------------------- C9
\* C9: POST /seed decides for each of tool, course and lab on its own.  No
\* storage operation of a call changes a collection that held a document
\* when the call arrived; what it adds to another is one sample of that kind
\* at a time; a call that answers ok has inserted, of each kind, either all
\* the samples or none, and none only where the collection holds a document;
\* subscriber and contactmessage are never written.
C9_SeedGuardsEachKind ==
  [][ \A w \in Workers :
        (Stepped(w) /\ db # NoDb) =>
          /\ db' # NoDb
          /\ db'["subscriber"] = db["subscriber"]
          /\ db'["contactmessage"] = db["contactmessage"]
          /\ \A k \in SeededKinds :
               /\ k \in HeldOnArrival(w) => db'[k] = db[k]
               /\ db'[k] # db[k] =>
                    /\ Len(db'[k]) = Len(db[k]) + 1
                    /\ IsPrefix(db[k], db'[k])
                    /\ \E i \in 1..Len(SeedDocs(k)) :
                         Strip(db'[k][Len(db'[k])]) = SeedDocs(k)[i]
          /\ (Answered(w) /\ resp'.code = 200) =>
               \A k \in SeededKinds :
                 /\ k \in log'.held => log'.made[k] = 0
                 /\ \/ log'.made[k] = Len(SeedDocs(k))
                    \/ log'.made[k] = 0 /\ Len(db'[k]) > 0
    ]_vars

\* C9 witness: a POST /seed found a tool and a lab but no course: it made
\* exactly two inserts, the two courses, and the tool is still the old one.
C9_Witness ==
  /\ req.op = "seed"
  /\ resp.code = 200
  /\ log.held = {"tool", "lab"}
  /\ log.creates = 2
  /\ Stripped(db["tool"]) = <<OldToolDoc>>
  /\ Stripped(db["course"]) = SeedDocs("course")
  /\ Stripped(db["lab"]) = <<OldLabDoc>>

\* ----------------------------------------------------------- C4, C5 and C10

\* The query string of the last GET /tools.
SortParam == Get(req.params, "sort", None)

\* A parameter counts as given when it is present and not empty.
GivenQ == "q" \in DOMAIN req.params /\ Len(req.params["q"]) > 0

GivenCategory == "category" \in DOMAIN req.params /\ req.params["category"] # ""

\* text contains part as a substring, letter case ignored.
ContainsIgnoringCase(text, part) ==
  \E i \in 1..(Len(text) + 1) :
    /\ i + Len(part) - 1 <= Len(text)
    /\ \A j \in 1..Len(part) : Lower(part[j]) = Lower(text[i + j - 1])

\* The identifiers of stored documents, as strings.
IdsOf(docs) == [i \in 1..Len(docs) |-> Str(docs[i]["_id"])]

\* The identifiers of the response body, in order.
BodyIds == [i \in 1..Len(resp.body) |-> resp.body[i]["_id"]]

\* The elements of a sequence.
Range(s) == { s[i] : i \in 1..Len(s) }

\* The stored tool a response element was made from.
StoredAt(i) ==
  CHOOSE n \in 1..Len(db["tool"]) : Str(db["tool"][n]["_id"]) = resp.body[i]["_id"]

\* The response holds stored tools, each at most once, unaltered but for the
\* identifier rendered as a string and the JSON encoding.
BodyIsOfStoredTools ==
  /\ \A i \in 1..Len(resp.body) :
       /\ \E n \in 1..Len(db["tool"]) : Str(db["tool"][n]["_id"]) = resp.body[i]["_id"]
       /\ Strip(resp.body[i]) = JsonDoc(Strip(db["tool"][StoredAt(i)]))
  /\ \A i, j \in 1..Len(resp.body) : resp.body[i]["_id"] = resp.body[j]["_id"] => i = j

\* What the filter phase is to keep, according to the code: the name matches
\* q as a regular expression, the category is equal.
KeptByCode(doc) == Matches(doc, FilterDict(req.params))

\* What the filter phase is to keep, according to C4: the name contains q,
\* the category is equal.
KeptByClaim(doc) ==
  /\ GivenQ =>
       "name" \in DOMAIN doc /\ ContainsIgnoringCase(doc["name"], req.params["q"])
  /\ GivenCategory =>
       "category" \in DOMAIN doc /\ doc["category"] = req.params["category"]

\* C4: GET /tools, when the read returns, answers exactly the stored tools whose name contains q as a
\* substring, letter case ignored (when q is given), and whose category is
\* equal to the category parameter (when it is given); every stored tool when
\* neither is given.
C4_FilterIsSubstringAndExactCategory ==
  (req.op = "list_tools" /\ db # NoDb /\ resp.code = 200) =>
    /\ BodyIsOfStoredTools
    /\ Range(BodyIds) = Range(IdsOf(SelectSeq(db["tool"], KeptByClaim)))

\* The stored position of each response element.
BodyPositions == [i \in 1..Len(resp.body) |-> StoredAt(i)]

\* The response holds exactly the tools the filter phase keeps.
BodyIsTheFilteredResult ==
  /\ BodyIsOfStoredTools
  /\ Range(BodyIds) = Range(IdsOf(SelectSeq(db["tool"], KeptByCode)))

\* popularity, a missing one counted as 0.
PopularityOf(doc) == IF "popularity" \in DOMAIN doc THEN doc["popularity"] ELSE 0

\* Beginner(0) < Intermediate(1) < Advanced(2), anything else 0.
RankOf(doc) ==
  IF "difficulty" \notin DOMAIN doc THEN 0
  ELSE IF doc["difficulty"] = "Intermediate" THEN 1
  ELSE IF doc["difficulty"] = "Advanced" THEN 2
  ELSE 0

\* C5: with sort=popularity the list GET /tools returns is a permutation of the filtered
\* result, non-increasing in popularity (a missing one counted as 0), and
\* tools of equal popularity are in the order storage returned them.
C5_PopularityDescendingStable ==
  (req.op = "list_tools" /\ db # NoDb /\ resp.code = 200
     /\ SortParam = "popularity") =>
    /\ BodyIsTheFilteredResult
    /\ \A i, j \in 1..Len(resp.body) :
         i < j =>
           /\ PopularityOf(resp.body[i]) >= PopularityOf(resp.body[j])
           /\ PopularityOf(resp.body[i]) = PopularityOf(resp.body[j]) =>
                BodyPositions[i] < BodyPositions[j]

\* C5 witness: a response sorted by popularity in which the sort moved a tool
\* forward and left two tools of equal popularity in storage order.
C5_Witness ==
  /\ req.op = "list_tools"
  /\ db # NoDb
  /\ resp.code = 200
  /\ SortParam = "popularity"
  /\ \E i, j \in 1..Len(resp.body) :
       /\ i < j
       /\ PopularityOf(resp.body[i]) = PopularityOf(resp.body[j])
       /\ BodyPositions[i] < BodyPositions[j]
  /\ \E i, j \in 1..Len(resp.body) :
       /\ i < j
       /\ "popularity" \notin DOMAIN resp.body[j]
       /\ BodyPositions[i] > BodyPositions[j]

\* The answer of GET /tools as C10 describes it.
C10_SortAnswer ==
  (req.op = "list_tools" /\ db # NoDb /\ resp.code = 200) =>
    /\ BodyIsTheFilteredResult
    /\ SortParam = "difficulty" =>
         \A i, j \in 1..Len(resp.body) :
           i < j => RankOf(resp.body[i]) <= RankOf(resp.body[j])
    /\ SortParam \notin {"popularity", "difficulty", "category"} =>
         \A i, j \in 1..Len(resp.body) :
           i < j => BodyPositions[i] < BodyPositions[j]

\* GET /tools writes nothing.
C10_StoreUntouched == req'.op = "list_tools" => db' = db

\* C10: the list GET /tools returns holds exactly the tools the filter keeps,
\* whatever the sort; with sort=difficulty it is ascending by rank
\* Beginner(0) < Intermediate(1) < Advanced(2), a missing or unrecognized
\* difficulty ranked 0; with no sort or an unrecognized one it is in storage
\* order; and the stored tool records are left unchanged, whether the read
\* returns or raises.
C10_SortPhase == []C10_SortAnswer /\ [][C10_StoreUntouched]_vars

\* C10 witness: a response sorted by difficulty in which a tool of an
\* unrecognized difficulty was moved in front of an Advanced one.
C10_Witness ==
  /\ req.op = "list_tools"
  /\ db # NoDb
  /\ resp.code = 200
  /\ SortParam = "difficulty"
  /\ \E i, j \in 1..Len(resp.body) :
       /\ i < j
       /\ BodyPositions[i] > BodyPositions[j]
       /\ Get(resp.body[i], "difficulty", None) = "Expert"
       /\ Get(resp.body[j], "difficulty", None) = "Advanced"

\* ---------------------------------------------------------------------- C6

\* Neither variable holds a key.
NoKeyConfigured ==
  /\ req.env.NEWSDATA_API_KEY \in {None, ""}
  /\ req.env.NEWSAPI_KEY \in {None, ""}

\* The outbound call was made and raised.
ProviderCallRaised == "outcome" \in DOMAIN req /\ req.outcome.raises

\* The outbound call was made and answered without a single result.
ProviderReturnedNothing ==
  /\ "outcome" \in DOMAIN req
  /\ ~req.outcome.raises
  /\ Len(Get(req.outcome.data, "results", <<>>)) = 0

\* The response is the fallback: three items, all of source Sample, all with
\* the same published_at.
BodyIsTheFallback ==
  /\ Len(resp.body) = 3
  /\ \A i \in 1..3 : resp.body[i].source = "Sample"
  /\ \A i, j \in 1..3 : resp.body[i].published_at = resp.body[j].published_at
  /\ resp.body[1].published_at \in Clock

\* C6: GET /news always answers 200; the answer is the fallback list whenever
\* no key is configured, the provider call raised, or the provider returned
\* no item; an answer that is not the fallback holds between 1 and 12 items,
\* none of source Sample.
C6_NewsFallsBack ==
  req.op = "get_news" =>
    /\ resp.code = 200
    /\ (NoKeyConfigured \/ ProviderCallRaised \/ ProviderReturnedNothing)
         => BodyIsTheFallback
    /\ \/ BodyIsTheFallback
       \/ /\ Len(resp.body) \in 1..NewsLimit
          /\ \A i \in 1..Len(resp.body) : resp.body[i].source # "Sample"

\* C6 witness: a key is configured, the provider call raised, and the client
\* received the three samples.
C6_Witness ==
  /\ req.op = "get_news"
  /\ ~NoKeyConfigured
  /\ ProviderCallRaised
  /\ BodyIsTheFallback

\* C6, the cut: the provider returned more than 12 items and 12 were served.
C6_CutReached ==
  /\ req.op = "get_news"
  /\ "outcome" \in DOMAIN req
  /\ ~req.outcome.raises
  /\ Len(Get(req.outcome.data, "results", <<>>)) > NewsLimit
  /\ Len(resp.body) = NewsLimit

\* ---------------------------------------------------------------------- C7
\* C7: in disabled mode, whatever was served before, GET /tools and
\* GET /courses answer an empty list, POST /subscribe and POST /contact
\* answer {status: disabled}, the handle stays None, and no handler makes a
\* storage operation or calls create_document.
C7_DisabledMode ==
  /\ db = NoDb
  /\ log.ops = 0
  /\ log.creates = 0
  /\ req.op \in {"list_tools", "list_courses"} =>
       resp = [code |-> 200, body |-> <<>>]
  /\ req.op \in {"subscribe", "contact"} =>
       resp = [code |-> 200, body |-> [status |-> "disabled"]]

\* C7 witness: GET /tools with q, category and sort all given answered an
\* empty list in disabled mode.
C7_Witness ==
  /\ db = NoDb
  /\ req.op = "list_tools"
  /\ DOMAIN req.params = {"q", "category", "sort"}
  /\ resp.body = <<>>

\* C7, the write routes: POST /subscribe was answered disabled.
C7_SubscribeDisabledReached ==
  db = NoDb /\ req.op = "subscribe" /\ resp.body.status = "disabled"

\* ---------------------------------------------------------------------- C8

\* Every worker has answered its POST /seed, and with ok.
AllSeedsDone ==
  \A w \in Workers : pc[w].at[1] = "done" /\ pc[w].at[2] = 200

\* C8: whatever the interleaving of concurrent POST /seed requests on an
\* empty store, once all have answered ok the collections hold the samples
\* exactly once: 2 tools, 2 courses, 1 lab.
C8_ConcurrentSeedsSeedOnce ==
  (db # NoDb /\ AllSeedsDone) => HoldsExactlyTheSamples(db)

====
